---- MODULE Spec2Model ----
(***************************************************************************)
(* observability-cost-center: one invocation of the report pipeline.       *)
(*                                                                         *)
(* Two entry points exist in the repository: the cobra "report" command    *)
(* (cmd/report.go, executeReport, which renders through Report.Output) and *)
(* cli.GenerateReport (internal/cli/commands.go, which renders through     *)
(* Report.OutputJSON / Report.OutputTable).  Both build the Report with    *)
(* ReportGenerator.GenerateReport.                                         *)
(*                                                                         *)
(* Modelling conventions                                                   *)
(*  - A Go string that the code orders (account IDs, formatted days) is a  *)
(*    sequence of naturals, compared lexicographically as Go compares      *)
(*    strings byte by byte.  Other strings are TLA+ strings.               *)
(*  - A time.Time is the number of hours since 2024-01-01T00:00Z.          *)
(*  - A float64 amount is an integer number of cost units; float addition  *)
(*    is integer addition (the spec states its sums to a tolerance).       *)
(*  - A sink (standard output, the output file) is the sequence of rows    *)
(*    written to it; a row records the arguments of one Fprintf / Append   *)
(*    / Encode call of a renderer or of an entry point.  The diagnostics   *)
(*    the vendor adapters print are not part of it.                        *)
(***************************************************************************)
EXTENDS Integers, Sequences, FiniteSets, TLC

VARIABLES
    args,    \* the entry point running and the inputs it has read so far
    pc,      \* "start" -> "generated" -> "done" (-> "twice" when rendered again);
             \* "start" -> "fetched" for an operation run on its own
    report,  \* the *Report held by the entry point, NoReport while nil
    err,     \* the error the entry point returns, Nil while none
    calls,   \* the provider operations called so far, in call order
    stdout,  \* rows the renderers wrote to os.Stdout
    file,    \* the file at the output path: whether it exists, and its rows
    exit,    \* the exit status of the process, Running while it has not exited
    vendor,  \* the vendor queries a provider operation run on its own has issued
    fetched  \* what an operation run on its own returned, NoResult before it returns

vars == <<args, pc, report, err, calls, stdout, file, exit, vendor, fetched>>

\* The provider returns at most this many records (usage plus cost) per run.
MaxRecords == 2

----------------------------------------------------------------------------
\* Values

NoReport == [nil |-> TRUE]
NoSections == [t \in {} |-> ""]

\* providers.CostData: the line items the vendor can bill (two accounts, two
\* instants of one day and one of the next, two currencies).
CostRecords ==
    { [AccountID |-> <<1, 1, 1>>, StartTime |-> 8,  Cost |-> 10, Currency |-> "USD"],
      [AccountID |-> <<1, 1, 1>>, StartTime |-> 20, Cost |-> 20, Currency |-> "USD"],
      [AccountID |-> <<1, 1, 1>>, StartTime |-> 32, Cost |-> 5,  Currency |-> "EUR"],
      [AccountID |-> <<2, 2, 2>>, StartTime |-> 8,  Cost |-> 7,  Currency |-> "EUR"],
      [AccountID |-> <<2, 2, 2>>, StartTime |-> 32, Cost |-> 2,  Currency |-> "USD"] }

\* A whole month's bill: every line item once, the accounts and days interleaved.
MonthlyBill ==
    << [AccountID |-> <<1, 1, 1>>, StartTime |-> 32, Cost |-> 5,  Currency |-> "EUR"],
       [AccountID |-> <<2, 2, 2>>, StartTime |-> 8,  Cost |-> 7,  Currency |-> "EUR"],
       [AccountID |-> <<1, 1, 1>>, StartTime |-> 8,  Cost |-> 10, Currency |-> "USD"],
       [AccountID |-> <<2, 2, 2>>, StartTime |-> 32, Cost |-> 2,  Currency |-> "USD"],
       [AccountID |-> <<1, 1, 1>>, StartTime |-> 20, Cost |-> 20, Currency |-> "USD"] >>

\* providers.UsageData: the data points the vendor can report.
UsageRecords ==
    { [Metric |-> "IncomingBytes", Timestamp |-> 30],
      [Metric |-> "CallCount",     Timestamp |-> 10],
      [Metric |-> "IncomingBytes", Timestamp |-> 10] }

RECURSIVE SeqsUpTo(_, _)
SeqsUpTo(S, n) ==
    IF n = 0 THEN {<<>>}
    ELSE LET shorter == SeqsUpTo(S, n - 1)
         IN  shorter \cup {Append(s, x) : s \in {t \in shorter : Len(t) = n - 1}, x \in S}

\* A Go error is the chain of its messages, outermost first; nil is the empty chain.
Nil == <<>>
Errorf(msg) == <<msg>>
WrapDropsCause(msg, cause) == <<msg>>
Wrap(msg, cause) == <<msg>> \o cause

\* What a provider operation returns: (records, error).
ProviderError == Errorf("vendor query failed")
UsageResults ==
    {[data |-> d, err |-> Nil] : d \in SeqsUpTo(UsageRecords, MaxRecords)}
        \cup {[data |-> <<>>, err |-> ProviderError]}
CostResults ==
    {[data |-> d, err |-> Nil] : d \in SeqsUpTo(CostRecords, MaxRecords)}
        \cup {[data |-> <<>>, err |-> ProviderError]}

----------------------------------------------------------------------------
\* Strings and times

\* Go's a < b on strings.
LexLess(a, b) ==
    \E i \in 1..(Len(a) + 1) :
        /\ \A j \in 1..(i - 1) : j <= Len(b) /\ a[j] = b[j]
        /\ \/ i = Len(a) + 1 /\ i <= Len(b)
           \/ i <= Len(a) /\ i <= Len(b) /\ a[i] < b[i]

RECURSIVE InsertString(_, _)
InsertString(x, s) ==
    IF s = <<>> THEN <<x>>
    ELSE IF LexLess(x, Head(s)) THEN <<x>> \o s
    ELSE <<Head(s)>> \o InsertString(x, Tail(s))

SortStringsKeepsOrder(s) == s

\* sort.Strings
RECURSIVE SortStrings(_)
SortStrings(s) ==
    IF s = <<>> THEN <<>> ELSE InsertString(Head(s), SortStrings(Tail(s)))

\* t.Format("2006-01-02"): year, month, day as fixed-width fields.
FormatDate(t) == <<2024, 1, 1 + (t \div 24)>>

\* t.Format("2006-01-02 15:04:05")
FormatDateTime(t) == FormatDate(t) \o <<t % 24, 0, 0>>

\* time.Parse("2006-01-02", s)
TimeParse(s) ==
    CASE s = "2024-01-01" -> [ok |-> TRUE, t |-> 0]
      [] s = "2024-01-31" -> [ok |-> TRUE, t |-> 720]
      [] OTHER -> [ok |-> FALSE, t |-> 0]

----------------------------------------------------------------------------
\* ReportGenerator.GenerateReport

\* The loop "for _, cost := range costs { total += cost.Cost }".
RECURSIVE AddCosts(_, _)
AddCosts(total, costs) ==
    IF costs = <<>> THEN total ELSE AddCosts(total + Head(costs).Cost, Tail(costs))

\* "if reportType == UsageReport || reportType == FullReport"
NeedsUsage(reportType) == reportType = "usage" \/ reportType = "full"

\* "if reportType == CostReport || reportType == FullReport"
NeedsCostAlways(reportType) == TRUE
NeedsCost(reportType) == reportType = "cost" \/ reportType = "full"

\* "report.TotalCost = 0.0; for ... { report.TotalCost += cost.Cost }"
TotalCostSkipsFirst(costs) == IF costs = <<>> THEN 0 ELSE AddCosts(0, Tail(costs))
TotalCostOf(costs) == AddCosts(0, costs)

\* A provider operation called, with what it returned.
Call(op, result) == [op |-> op, result |-> result]

\* usageRes and costRes are what the provider returns if it is asked.
GenerateReport(providerName, reportType, start, end, usageRes, costRes) ==
    LET r0 == [ProviderName |-> providerName, StartDate |-> start, EndDate |-> end,
               ReportType |-> reportType, UsageData |-> <<>>, CostData |-> <<>>,
               TotalCost |-> 0, CustomSections |-> NoSections]
        r1 == IF NeedsUsage(reportType) THEN [r0 EXCEPT !.UsageData = usageRes.data] ELSE r0
        c1 == IF NeedsUsage(reportType) THEN <<Call("GetUsageData", usageRes)>> ELSE <<>>
        r2 == IF NeedsCost(reportType)
              THEN [r1 EXCEPT !.CostData = costRes.data,
                              !.TotalCost = TotalCostOf(costRes.data)]
              ELSE r1
        c2 == IF NeedsCost(reportType) THEN Append(c1, Call("GetCostData", costRes)) ELSE c1
    IN  IF NeedsUsage(reportType) /\ usageRes.err # Nil
        THEN [report |-> NoReport, calls |-> c1,
              err |-> Wrap("error getting usage data", usageRes.err)]
        ELSE IF NeedsCost(reportType) /\ costRes.err # Nil
        THEN [report |-> NoReport, calls |-> c2,
              err |-> Wrap("error getting cost data", costRes.err)]
        ELSE [report |-> r2, calls |-> c2, err |-> Nil]

----------------------------------------------------------------------------
\* Rows: what a renderer hands to one Fprintf / table Append / Encode call.

NoItem == [none |-> TRUE]
Row(kind, acct, day, amount, cur, item) ==
    [kind |-> kind, acct |-> acct, day |-> day, amount |-> amount, cur |-> cur,
     item |-> item]
Text(kind, item) == Row(kind, <<>>, <<>>, 0, "", item)

\* The report header lines and the entry counts every table renderer starts with.
HeaderRows(r) ==
    << Text("header", [provider |-> r.ProviderName, reportType |-> r.ReportType,
                       startDate |-> FormatDate(r.StartDate),
                       endDate |-> FormatDate(r.EndDate)]),
       Text("counts", [usage |-> Len(r.UsageData), cost |-> Len(r.CostData)]) >>

\* One usage table line per record of usage, in the order given.
UsageRows(usage) ==
    [i \in 1..Len(usage) |-> Text("usage", usage[i])]

\* sort.Slice(r.UsageData, Timestamp.Before): some permutation of the slice in
\* which no element is Before an earlier one.  The sort is not stable, so
\* records with equal timestamps may come out in any order.
SortSliceResults(usage) ==
    LET n == Len(usage)
        perms == {p \in [1..n -> 1..n] : \A i, j \in 1..n : i # j => p[i] # p[j]}
        out(p) == [i \in 1..n |-> usage[p[i]]]
    IN  {out(p) : p \in {q \in perms :
            \A i, j \in 1..n : i < j => ~(usage[q[j]].Timestamp < usage[q[i]].Timestamp)}}

\* The distinct keys of a sequence in first-seen order: the loop
\* "if _, exists := groups[k]; !exists { keys = append(keys, k) }".
RECURSIVE FirstSeen(_, _)
FirstSeen(keys, seen) ==
    IF keys = <<>> THEN seen
    ELSE IF \E i \in 1..Len(seen) : seen[i] = Head(keys)
         THEN FirstSeen(Tail(keys), seen)
         ELSE FirstSeen(Tail(keys), Append(seen, Head(keys)))

AccountIDsOf(costs) == FirstSeen([i \in 1..Len(costs) |-> costs[i].AccountID], <<>>)
AccountGroup(costs, accountID) ==
    SelectSeq(costs, LAMBDA c : c.AccountID = accountID)
DaysOf(costs) == FirstSeen([i \in 1..Len(costs) |-> FormatDate(costs[i].StartTime)], <<>>)
DayGroupByInstant(costs, day) ==
    SelectSeq(costs, LAMBDA c : FormatDate(c.StartTime) = day
                                /\ c.StartTime = costs[1].StartTime)
DayGroup(costs, day) ==
    SelectSeq(costs, LAMBDA c : FormatDate(c.StartTime) = day)

\* "currency = cost.Currency" inside a loop over costs: the last one wins.
LastCurrency(currency, costs) ==
    IF costs = <<>> THEN currency ELSE costs[Len(costs)].Currency

----------------------------------------------------------------------------
\* Cost sections of the table renderers

\* The account cost summary: one line per account with the running currency,
\* then the TOTAL line.
RECURSIVE AccountSummaryRows(_, _, _, _)
AccountSummaryRows(accountIDs, costs, grandTotal, currency) ==
    IF accountIDs = <<>>
    THEN <<Row("total", <<>>, <<>>, grandTotal, currency, NoItem)>>
    ELSE LET group == AccountGroup(costs, Head(accountIDs))
             accountTotal == AddCosts(0, group)
             cur == LastCurrency(currency, group)
         IN  <<Row("summary", Head(accountIDs), <<>>, accountTotal, cur, NoItem)>>
                 \o AccountSummaryRows(Tail(accountIDs), costs, grandTotal + accountTotal, cur)

ItemRows(accountID, dayCosts) ==
    [i \in 1..Len(dayCosts) |->
        Row("item", accountID, FormatDate(dayCosts[i].StartTime), dayCosts[i].Cost,
            dayCosts[i].Currency, dayCosts[i])]

\* One account of the detailed breakdown: per day its line items and a DAILY
\* TOTAL line, then the ACCOUNT TOTAL line.
RECURSIVE DayRowsLastDayOnly(_, _, _, _)
DayRowsLastDayOnly(accountID, days, group, accountTotal) ==
    IF days = <<>>
    THEN <<Row("account", accountID, <<>>, accountTotal, "", NoItem)>>
    ELSE LET dayCosts == DayGroup(group, Head(days))
             dayTotal == AddCosts(0, dayCosts)
         IN  ItemRows(accountID, dayCosts)
                 \o <<Row("daily", accountID, Head(days), dayTotal, "", NoItem)>>
                 \o DayRowsLastDayOnly(accountID, Tail(days), group, dayTotal)

RECURSIVE DayRows(_, _, _, _)
DayRows(accountID, days, group, accountTotal) ==
    IF days = <<>>
    THEN <<Row("account", accountID, <<>>, accountTotal, "", NoItem)>>
    ELSE LET dayCosts == DayGroup(group, Head(days))
             dayTotal == AddCosts(0, dayCosts)
         IN  ItemRows(accountID, dayCosts)
                 \o <<Row("daily", accountID, Head(days), dayTotal, "", NoItem)>>
                 \o DayRows(accountID, Tail(days), group, accountTotal + dayTotal)

RECURSIVE AccountDetailRowsTotalFirst(_, _)
AccountDetailRowsTotalFirst(accountIDs, costs) ==
    IF accountIDs = <<>> THEN <<>>
    ELSE LET group == AccountGroup(costs, Head(accountIDs))
             rows == DayRows(Head(accountIDs), SortStrings(DaysOf(group)), group, 0)
         IN  <<rows[Len(rows)]>> \o SubSeq(rows, 1, Len(rows) - 1)
                 \o AccountDetailRowsTotalFirst(Tail(accountIDs), costs)

RECURSIVE AccountDetailRows(_, _)
AccountDetailRows(accountIDs, costs) ==
    IF accountIDs = <<>> THEN <<>>
    ELSE LET group == AccountGroup(costs, Head(accountIDs))
         IN  DayRows(Head(accountIDs), SortStrings(DaysOf(group)), group, 0)
                 \o AccountDetailRows(Tail(accountIDs), costs)

\* The same loops in outputTable, which prints the running currency on the
\* DAILY TOTAL and Account Total lines.
RECURSIVE SummaryDayRows(_, _, _, _, _)
SummaryDayRows(accountID, days, group, totalCost, currency) ==
    IF days = <<>>
    THEN <<Row("account", accountID, <<>>, totalCost, currency, NoItem)>>
    ELSE LET dayCosts == DayGroup(group, Head(days))
             dailyCost == AddCosts(0, dayCosts)
             cur == LastCurrency(currency, dayCosts)
         IN  ItemRows(accountID, dayCosts)
                 \o <<Row("daily", accountID, Head(days), dailyCost, cur, NoItem)>>
                 \o SummaryDayRows(accountID, Tail(days), group, totalCost + dailyCost, cur)

RECURSIVE SummaryAccountRows(_, _)
SummaryAccountRows(accountIDs, costs) ==
    IF accountIDs = <<>> THEN <<>>
    ELSE LET group == AccountGroup(costs, Head(accountIDs))
         IN  SummaryDayRows(Head(accountIDs), SortStrings(DaysOf(group)), group, 0, "")
                 \o SummaryAccountRows(Tail(accountIDs), costs)

----------------------------------------------------------------------------
\* The renderers.  Each returns the rows it writes, the Report as it leaves
\* it, and its error.

Rendered(rows, r, e) == [rows |-> rows, report |-> r, err |-> e]

\* Report.outputJSON and Report.outputCSV (generator.go)
outputJSON(r) == Rendered(<<Text("text", "JSON output format not yet implemented")>>, r, Nil)
outputCSV(r) == Rendered(<<Text("text", "CSV output format not yet implemented")>>, r, Nil)

\* Report.outputAsTable (format "table"); sorted is what sort.Slice leaves in
\* r.UsageData.
outputAsTable(r, sorted) ==
    LET showUsage == Len(r.UsageData) > 0
                        /\ (r.ReportType = "usage" \/ r.ReportType = "full")
        showCost == Len(r.CostData) > 0
                        /\ (r.ReportType = "cost" \/ r.ReportType = "full")
        r1 == IF showUsage THEN [r EXCEPT !.UsageData = sorted] ELSE r
        accountIDs == SortStrings(AccountIDsOf(r.CostData))
    IN  Rendered(HeaderRows(r)
                    \o (IF showUsage THEN UsageRows(r1.UsageData) ELSE <<>>)
                    \o (IF showCost
                        THEN AccountSummaryRows(accountIDs, r.CostData, 0, "")
                                \o AccountDetailRows(accountIDs, r.CostData)
                        ELSE <<>>),
                 r1, Nil)

\* The "Overall Totals" of outputTable: the account lines carry no currency,
\* the GRAND TOTAL line carries the last one seen.
OverallTotalRows(accountIDs, costs) ==
    LET rows == AccountSummaryRows(accountIDs, costs, 0, "")
    IN  [i \in 1..Len(rows) |->
            IF rows[i].kind = "summary" THEN [rows[i] EXCEPT !.cur = ""] ELSE rows[i]]

\* Report.outputTable (format "summary")
outputTable(r) ==
    LET accountIDs == SortStrings(AccountIDsOf(r.CostData))
    IN  Rendered(HeaderRows(r)
                    \o (IF Len(r.UsageData) > 0 THEN UsageRows(r.UsageData) ELSE <<>>)
                    \o (IF Len(r.CostData) > 0
                        THEN SummaryAccountRows(accountIDs, r.CostData)
                                \o OverallTotalRows(accountIDs, r.CostData)
                        ELSE <<>>),
                 r, Nil)

\* The custom sections, in the order the map iteration visits them.
SectionRows(r, titles) ==
    [i \in 1..Len(titles) |->
        Text("section", [title |-> titles[i], content |-> r.CustomSections[titles[i]]])]

\* Report.OutputTable (report.go); titles is the order in which the range over
\* r.CustomSections visits the section titles.
OutputTable(r, titles) ==
    LET showUsage == Len(r.UsageData) > 0
                        /\ (r.ReportType = "usage" \/ r.ReportType = "full")
        showCost == Len(r.CostData) > 0
                        /\ (r.ReportType = "cost" \/ r.ReportType = "full")
        accountIDs == AccountIDsOf(r.CostData)
    IN  Rendered(HeaderRows(r)
                    \o (IF showUsage THEN UsageRows(r.UsageData) ELSE <<>>)
                    \o (IF showCost
                        THEN AccountSummaryRows(accountIDs, r.CostData, 0, "")
                                \o AccountDetailRows(accountIDs, r.CostData)
                        ELSE <<>>)
                    \o SectionRows(r, titles),
                 r, Nil)

\* The orders in which a range over a Go map can visit the keys.
MapOrders(keys) ==
    LET n == Cardinality(keys)
    IN  {o \in [1..n -> keys] : \A i, j \in 1..n : i # j => o[i] # o[j]}

AddAccountCostsKeepsLast(totalCost, accounts) ==
    IF accounts = <<>> THEN totalCost ELSE accounts[Len(accounts)].cost

\* The loop over accountCosts in OutputJSON: the total of the account costs.
RECURSIVE AddAccountCosts(_, _)
AddAccountCosts(totalCost, accounts) ==
    IF accounts = <<>> THEN totalCost
    ELSE AddAccountCosts(totalCost + Head(accounts).cost, Tail(accounts))

\* "if primaryCurrency == "" { primaryCurrency = accountCurrency[accountID] }"
RECURSIVE PrimaryCurrency(_, _)
PrimaryCurrency(primaryCurrency, accounts) ==
    IF accounts = <<>> THEN primaryCurrency
    ELSE PrimaryCurrency(IF primaryCurrency = "" THEN Head(accounts).currency
                         ELSE primaryCurrency, Tail(accounts))

JSONSummaryCountsCostTwice(r, order) ==
    [usageDataEntries |-> Len(r.CostData), costDataEntries |-> Len(r.CostData)]

\* The summary object of the JSON document; order is the order in which the
\* range over accountCosts visits the account IDs.
JSONSummary(r, order) ==
    LET accounts == [i \in 1..Len(order) |->
                        [accountId |-> order[i],
                         cost |-> AddCosts(0, AccountGroup(r.CostData, order[i])),
                         currency |-> LastCurrency("", AccountGroup(r.CostData, order[i]))]]
    IN  [usageDataEntries |-> Len(r.UsageData), costDataEntries |-> Len(r.CostData)]
            @@ (IF Len(r.CostData) > 0
                THEN [accounts |-> accounts,
                      totalCost |-> AddAccountCosts(0, accounts),
                      currency |-> PrimaryCurrency("", accounts)]
                ELSE <<>>)

\* The document json.Encoder writes for jsonReport: a field tagged omitempty
\* is left out when its slice or map is empty.
JSONDocument(r, order) ==
    [provider |-> r.ProviderName, reportType |-> r.ReportType,
     startDate |-> FormatDate(r.StartDate), endDate |-> FormatDate(r.EndDate),
     summary |-> JSONSummary(r, order)]
        @@ (IF Len(r.UsageData) > 0 THEN [usageData |-> r.UsageData] ELSE <<>>)
        @@ (IF Len(r.CostData) > 0 THEN [costData |-> r.CostData] ELSE <<>>)
        @@ (IF DOMAIN r.CustomSections # {}
            THEN [customSections |-> r.CustomSections] ELSE <<>>)

\* Report.OutputJSON (report.go); encodeOk is whether encoder.Encode succeeds.
OutputJSON(r, order, encodeOk) ==
    IF encodeOk
    THEN Rendered(<<Text("json", JSONDocument(r, order))>>, r, Nil)
    ELSE Rendered(<<>>, r, Errorf("error encoding report to JSON"))

----------------------------------------------------------------------------
\* Files

\* A file: whether it exists, and the rows it holds.
NoFile == [exists |-> FALSE, rows |-> <<>>]
OldFile == [exists |-> TRUE, rows |-> <<Text("old", "previous content")>>]

\* os.Create(path): the file exists and is empty afterwards.
OsCreate(f) == [exists |-> TRUE, rows |-> <<>>]

\* Writes through the *os.File append to it.
Write(f, rows) == [f EXCEPT !.rows = @ \o rows]

\* What a run leaves behind: the error, the Report, the rows added to
\* standard output and the output file.
Outcome(e, r, out, f) == [err |-> e, report |-> r, stdout |-> out, file |-> f]

\* Report.Output (generator.go): createOk is whether os.Create succeeds.
Output(r, format, filePath, f, createOk, sorted) ==
    LET toFile == filePath # ""
        f1 == IF toFile THEN OsCreate(f) ELSE f
        res == CASE format = "json" -> outputJSON(r)
                 [] format = "csv" -> outputCSV(r)
                 [] format = "table" -> outputAsTable(r, sorted)
                 [] format = "summary" -> outputTable(r)
                 [] OTHER -> Rendered(<<>>, r, Errorf("unsupported output format"))
    IN  IF toFile /\ ~createOk
        THEN Outcome(Errorf("failed to create output file"), r, <<>>, f)
        ELSE Outcome(res.err, res.report,
                     IF toFile THEN <<>> ELSE res.rows,
                     IF toFile THEN Write(f1, res.rows) ELSE f1)

----------------------------------------------------------------------------
\* Inputs of one invocation

Unread == "(unread)"
StartDates == {"2024-01-01", "01/01/2024"}
EndDates == {"2024-01-31", "31/01/2024"}
ProviderNames == {"", "aws", "newrelic", "datadog"}
ReportTypes == {"usage", "cost", "full", "weekly"}
Formats == {"json", "csv", "table", "summary", "xml"}
FilePaths == {"", "report.out"}

\* What the provider returns to GetUsageData and to GetCostData when asked.
ProviderBehaviours ==
    {b \in UsageResults \X CostResults : Len(b[1].data) + Len(b[2].data) <= MaxRecords}
        \cup {<<[data |-> <<>>, err |-> Nil], [data |-> MonthlyBill, err |-> Nil]>>}

Log(text) == Text("log", text)

\* What the entry point holds when its first half returns.
Generated(e, r, c, out) == [err |-> e, report |-> r, calls |-> c, stdout |-> out]

----------------------------------------------------------------------------
\* cmd/report.go: the report command

\* executeReport up to the call of GenerateReport: the error it returns before
\* that call, Nil if it gets there.  initOk is whether the provider's
\* constructor succeeds.
executeReportChecks(provider, startDate, endDate, reportType, initOk) ==
    IF provider = "" THEN Errorf("provider is required")
    ELSE IF ~TimeParse(startDate).ok THEN Errorf("error parsing start date")
    ELSE IF ~TimeParse(endDate).ok THEN Errorf("error parsing end date")
    ELSE IF provider = "aws" /\ ~initOk
    THEN Errorf("error initializing AWS CloudWatch provider")
    ELSE IF provider = "newrelic" /\ ~initOk
    THEN Errorf("error initializing NewRelic provider")
    ELSE IF provider # "aws" /\ provider # "newrelic" THEN Errorf("unsupported provider")
    ELSE IF reportType # "usage" /\ reportType # "cost" /\ reportType # "full"
    THEN Errorf("unsupported report type")
    ELSE Nil

\* Provider.GetName
GetName(provider) == IF provider = "aws" THEN "AWS CloudWatch" ELSE provider

executeReportGenerateRendersAnyway(provider, startDate, endDate, reportType, behaviour) ==
    LET nothing == [data |-> <<>>, err |-> Nil]
        g == GenerateReport(GetName(provider), reportType, TimeParse(startDate).t,
                            TimeParse(endDate).t, behaviour[1], behaviour[2])
        h == GenerateReport(GetName(provider), reportType, TimeParse(startDate).t,
                            TimeParse(endDate).t, nothing, nothing)
    IN  Generated(Nil, IF g.err # Nil THEN h.report ELSE g.report, g.calls, <<>>)

\* executeReport from the call of GenerateReport to the report it prints the
\* counts of.
executeReportGenerate(provider, startDate, endDate, reportType, behaviour) ==
    LET g == GenerateReport(GetName(provider), reportType, TimeParse(startDate).t,
                            TimeParse(endDate).t, behaviour[1], behaviour[2])
    IN  IF g.err # Nil
        THEN Generated(Wrap("error generating report", g.err), NoReport, g.calls, <<>>)
        ELSE Generated(Nil, g.report, g.calls,
                       <<Log([generated |-> "report", usage |-> Len(g.report.UsageData),
                              cost |-> Len(g.report.CostData)])>>)

\* The Run function of the report command: it prints the error it is given.
RunPrints(e) == IF e # Nil THEN <<Text("error", e)>> ELSE <<>>

\* What cmd.Execute returns after the report command ran: Run has no error
\* result, so rootCmd.Execute has nothing to return but nil.
Execute(e) == Nil

\* func main: exits non-zero when cmd.Execute returns an error.
MainExit(e) == IF e # Nil THEN 1 ELSE 0

\* The exit status of the process while it runs.
Running == 0 - 1

ExecuteReportGenerate ==
    /\ pc = "start"
    /\ \E provider \in ProviderNames, startDate \in StartDates, endDate \in EndDates,
          reportType \in ReportTypes, initOk \in BOOLEAN :
          LET early == executeReportChecks(provider, startDate, endDate, reportType, initOk)
              read == [entry |-> "cmd", provider |-> provider, reportType |-> reportType,
                       startDate |-> startDate, endDate |-> endDate,
                       format |-> Unread, filePath |-> Unread]
              banner == <<Log("Using configuration file"), Log("AWS region from config")>>
          IN  IF early # Nil
              THEN /\ args' = read
                   /\ err' = early
                   /\ stdout' = stdout \o banner \o RunPrints(early)
                   /\ pc' = "done"
                   /\ exit' = MainExit(Execute(early))
                   /\ UNCHANGED <<report, calls>>
              ELSE \E behaviour \in ProviderBehaviours :
                   LET g == executeReportGenerate(provider, startDate, endDate,
                                                  reportType, behaviour)
                   IN  /\ args' = read
                       /\ err' = g.err
                       /\ report' = g.report
                       /\ calls' = calls \o g.calls
                       /\ stdout' = stdout \o banner \o g.stdout \o RunPrints(g.err)
                       /\ pc' = IF g.err = Nil THEN "generated" ELSE "done"
                       /\ exit' = IF g.err = Nil THEN exit ELSE MainExit(Execute(g.err))
    /\ UNCHANGED <<file, vendor, fetched>>

\* executeReport from reading the output format to its return.
executeReportOutput(r, outputFormat, outputFilePath, f, createOk, sorted) ==
    LET format == IF outputFormat = "" THEN "table" ELSE outputFormat
        o == Output(r, format, outputFilePath, f, createOk, sorted)
        notes == <<Log([format |-> format]),
                   Log(IF outputFilePath # "" THEN "Writing output to file"
                       ELSE "Writing output to stdout")>>
        e == IF o.err # Nil THEN Wrap("error outputting report", o.err) ELSE Nil
    IN  Outcome(e, o.report, notes \o o.stdout \o RunPrints(e), o.file)

ExecuteReportOutput ==
    /\ pc = "generated"
    /\ args.entry = "cmd"
    /\ \E format \in Formats, filePath \in FilePaths, createOk \in BOOLEAN,
          sorted \in SortSliceResults(report.UsageData) :
          LET o == executeReportOutput(report, format, filePath, file, createOk, sorted)
          IN  /\ args' = [args EXCEPT !.format = format, !.filePath = filePath]
              /\ err' = o.err
              /\ report' = o.report
              /\ stdout' = stdout \o o.stdout
              /\ file' = o.file
              /\ exit' = MainExit(Execute(o.err))
    /\ pc' = "done"
    /\ UNCHANGED <<calls, vendor, fetched>>

----------------------------------------------------------------------------
\* internal/cli/commands.go: cli.GenerateReport

\* The providers init() registers (providers.RegisterProvider).
Registry == {"newrelic"}

\* parseDates: an empty string selects the default date.
parseDate(s, default) ==
    IF s # "" THEN TimeParse(s) ELSE [ok |-> TRUE, t |-> default]

\* Report.AppendCustomSection: adds the section under its title.
AppendCustomSection(r, title, content) ==
    [r EXCEPT !.CustomSections = [t \in DOMAIN r.CustomSections \cup {title} |->
                                    IF t = title THEN content ELSE r.CustomSections[t]]]

\* cli.GenerateReport up to the report it is about to output.  factoryOk is
\* whether the registered factory succeeds, licenseOk whether
\* GetLicenseUsageReport does.
cliGenerate(providerName, reportType, startDate, endDate, factoryOk, licenseOk, behaviour) ==
    LET start == parseDate(startDate, 0)
        end == parseDate(endDate, 720)
        g == GenerateReport(GetName(providerName), reportType, start.t, end.t,
                            behaviour[1], behaviour[2])
    IN  IF providerName \notin Registry
        THEN Generated(Wrap("error getting provider", Errorf("provider not found")),
                       NoReport, <<>>, <<>>)
        ELSE IF ~factoryOk
        THEN Generated(Wrap("error getting provider", Errorf("factory failed")),
                       NoReport, <<>>, <<>>)
        ELSE IF ~start.ok
        THEN Generated(Wrap("error parsing dates", Errorf("invalid start date format")),
                       NoReport, <<>>, <<>>)
        ELSE IF ~end.ok
        THEN Generated(Wrap("error parsing dates", Errorf("invalid end date format")),
                       NoReport, <<>>, <<>>)
        ELSE IF g.err # Nil
        THEN Generated(Wrap("error generating report", g.err), NoReport, g.calls, <<>>)
        ELSE IF GetName(providerName) = "newrelic" /\ ~licenseOk
        THEN Generated(Wrap("error generating license details",
                            Errorf("error getting detailed license data")),
                       NoReport, g.calls, <<>>)
        ELSE IF GetName(providerName) = "newrelic"
        THEN Generated(Nil, AppendCustomSection(g.report, "License Usage Details",
                                                "license usage report"),
                       g.calls, <<>>)
        ELSE Generated(Nil, g.report, g.calls, <<>>)

CliGenerateReport ==
    /\ pc = "start"
    /\ \E providerName \in ProviderNames, startDate \in StartDates, endDate \in EndDates,
          reportType \in ReportTypes, factoryOk \in BOOLEAN, licenseOk \in BOOLEAN :
          \E behaviour \in IF providerName \in Registry /\ factoryOk
                                /\ TimeParse(startDate).ok /\ TimeParse(endDate).ok
                            THEN ProviderBehaviours
                            ELSE {<<[data |-> <<>>, err |-> Nil], [data |-> <<>>, err |-> Nil]>>} :
              LET g == cliGenerate(providerName, reportType, startDate, endDate,
                                   factoryOk, licenseOk, behaviour)
              IN  /\ args' = [entry |-> "cli", provider |-> providerName,
                              reportType |-> reportType, startDate |-> startDate,
                              endDate |-> endDate, format |-> Unread, filePath |-> Unread]
                  /\ err' = g.err
                  /\ report' = g.report
                  /\ calls' = calls \o g.calls
                  /\ stdout' = stdout \o g.stdout
                  /\ pc' = IF g.err = Nil THEN "generated" ELSE "done"
    /\ UNCHANGED <<file, exit, vendor, fetched>>

\* cli.GenerateReport from "Output the report" to its return.  On the file
\* branch the renderer's error is assigned to the err declared by
\* "file, err := os.Create(outputPath)", which shadows the err tested after
\* the branch.
cliOutput(r, format, outputPath, f, createOk, encodeOk, order, titles) ==
    LET res == IF format = "json" THEN OutputJSON(r, order, encodeOk)
               ELSE OutputTable(r, titles)
    IN  IF outputPath = ""
        THEN Outcome(IF res.err # Nil THEN Wrap("error outputting report", res.err) ELSE Nil,
                     res.report, res.rows, f)
        ELSE IF ~createOk
        THEN Outcome(Wrap("error creating output file", Errorf("create failed")), r, <<>>, f)
        ELSE Outcome(Nil, res.report, <<>>, Write(OsCreate(f), res.rows))

CliOutputReport ==
    /\ pc = "generated"
    /\ args.entry = "cli"
    /\ \E format \in Formats, outputPath \in FilePaths, createOk \in BOOLEAN,
          encodeOk \in BOOLEAN,
          order \in MapOrders({report.CostData[i].AccountID : i \in 1..Len(report.CostData)}),
          titles \in MapOrders(DOMAIN report.CustomSections) :
          LET o == cliOutput(report, format, outputPath, file, createOk, encodeOk,
                             order, titles)
          IN  /\ args' = [args EXCEPT !.format = format, !.filePath = outputPath]
              /\ err' = o.err
              /\ report' = o.report
              /\ stdout' = stdout \o o.stdout
              /\ file' = o.file
    /\ pc' = "done"
    /\ UNCHANGED <<calls, exit, vendor, fetched>>

----------------------------------------------------------------------------
\* One invocation

\* No provider operation has returned.
NoResult == [none |-> TRUE]

NoArgs == [entry |-> Unread, provider |-> Unread, reportType |-> Unread,
           startDate |-> Unread, endDate |-> Unread, format |-> Unread,
           filePath |-> Unread]

----------------------------------------------------------------------------
\* The vendor adapters, each operation run on its own against the vendor's
\* answers.  An optional value (a Go pointer, a JSON field that may be
\* missing) is a sequence of at most one element.

\* A vendor response holds at most this many datapoints, groups, accounts,
\* results or licenses.
MaxItems == 1

\* The vendor's answer to one query: an error, or the items of its response.
Failed == [ok |-> FALSE, items |-> <<>>]
Answers(S) == {Failed} \cup {[ok |-> TRUE, items |-> i] : i \in SeqsUpTo(S, MaxItems)}
VendorError == Errorf("vendor call failed")

\* One query issued to the vendor, and the answer it got.
Query(api, about, answer) == [api |-> api, about |-> about, answer |-> answer]

\* What a provider operation leaves behind: the records and error it
\* returns, the queries it issued, the warnings it printed.
Fetched(data, e, queries, warnings) ==
    [data |-> data, err |-> e, vendor |-> queries, warnings |-> warnings]

\* [f(s[1]), ..., f(s[n])]
Map(s, f(_)) == [i \in 1..Len(s) |-> f(s[i])]

\* time.Parse("2006-01-02", day) of a day the vendor formatted
DayParse(day) == 24 * (day[3] - 1)

\* time.Now()
Now == 720

\* --- CloudWatchProvider (internal/providers/provider.go)

\* The metrics GetUsageData queries, one of namespace AWS/Logs and one of
\* AWS/Usage out of the eleven.
Metrics == <<"IncomingBytes", "CallCount">>
Datapoints == {[Timestamp |-> 10], [Timestamp |-> 30]}

\* The loop over metrics from the i-th on: a failed query is warned about and
\* skipped, the datapoints of the others are appended.
RECURSIVE MetricsFrom(_, _)
MetricsFrom(i, answers) ==
    IF i > Len(Metrics) THEN Fetched(<<>>, Nil, <<>>, <<>>)
    ELSE LET rest == MetricsFrom(i + 1, answers)
             query == Query("GetMetricStatistics", Metrics[i], answers[i])
             points == Map(answers[i].items,
                           LAMBDA dp : [Service |-> "CloudWatch", Metric |-> Metrics[i],
                                        Timestamp |-> dp.Timestamp])
         IN  IF ~answers[i].ok
             THEN Fetched(rest.data, Nil, <<query>> \o rest.vendor,
                          <<Log([warning |-> "error getting metrics", metric |-> Metrics[i]])>>
                              \o rest.warnings)
             ELSE Fetched(points \o rest.data, Nil, <<query>> \o rest.vendor, rest.warnings)

\* CloudWatchProvider.GetUsageData
CloudWatchGetUsageData(answers) == MetricsFrom(1, answers)

\* The groups Cost Explorer can return: a CloudWatch line item of one linked
\* account, a group with the service key only, a line item of another service
\* with no unit.
CostGroups ==
    { [Keys |-> <<"AmazonCloudWatch", <<1, 1, 1>>>>, Start |-> <<2024, 1, 1>>,
       Amount |-> <<10>>, Unit |-> <<"USD">>],
      [Keys |-> <<"AmazonCloudWatch">>, Start |-> <<2024, 1, 1>>,
       Amount |-> <<10>>, Unit |-> <<"USD">>],
      [Keys |-> <<"CloudWatch Events", <<1, 1, 1>>>>, Start |-> <<2024, 1, 2>>,
       Amount |-> <<5>>, Unit |-> <<"EUR">>],
      [Keys |-> <<"Amazon Elastic Compute Cloud", <<2, 2, 2>>>>, Start |-> <<2024, 1, 2>>,
       Amount |-> <<>>, Unit |-> <<>>] }

\* The services the Filter of the first query names.
FilterValues == {"AmazonCloudWatch", "CloudWatch", "AmazonCloudWatchLogs", "CloudWatchLogs",
                 "AmazonCloudWatchMetrics", "CloudWatchMetrics"}
FilteredGroups == {g \in CostGroups : g.Keys[1] \in FilterValues}

\* strings.Contains(strings.ToLower(serviceName), keyword) for one of the
\* keywords "cloudwatch", "logs", "metrics", on the service names above.
IsCloudWatchService(serviceName) ==
    serviceName \in {"AmazonCloudWatch", "CloudWatch Events"}

\* The cost and currency read from a group's UnblendedCost metric.
CostOf(group) == IF group.Amount # <<>> THEN group.Amount[1] ELSE 0
CurrencyOf(group) == IF group.Unit # <<>> THEN group.Unit[1] ELSE "USD"

\* The CostData appended for a group of the filtered query.
FilteredRecord(group) ==
    [Service |-> group.Keys[1], AccountID |-> group.Keys[2],
     StartTime |-> DayParse(group.Start), Cost |-> CostOf(group),
     Currency |-> CurrencyOf(group)]

\* The CostData appended for a group of the fallback query: the literal has
\* no AccountID field, which leaves it the empty string.
FallbackRecord(group) ==
    [Service |-> group.Keys[1], AccountID |-> <<>>,
     StartTime |-> DayParse(group.Start), Cost |-> CostOf(group),
     Currency |-> CurrencyOf(group)]

\* CloudWatchProvider.GetCostData: loadOk is whether LoadDefaultConfig
\* succeeds, first the answer to the filtered query, second the answer to the
\* query without the filter.
CloudWatchGetCostData(loadOk, first, second) ==
    LET q0 == Query("LoadDefaultConfig", "", [ok |-> loadOk, items |-> <<>>])
        q1 == Query("GetCostAndUsage", "filtered", first)
        q2 == Query("GetCostAndUsage", "unfiltered", second)
        note == <<Log([note |-> "No CloudWatch services found with filters, trying without filters..."])>>
        results == Map(SelectSeq(first.items, LAMBDA g : Len(g.Keys) >= 2), FilteredRecord)
        fallback == IF second.ok
                    THEN Map(SelectSeq(second.items,
                                       LAMBDA g : Len(g.Keys) >= 2
                                                    /\ IsCloudWatchService(g.Keys[1])),
                             FallbackRecord)
                    ELSE <<>>
    IN  IF ~loadOk
        THEN Fetched(<<>>, Wrap("failed to load AWS config for Cost Explorer", VendorError),
                     <<q0>>, <<>>)
        ELSE IF ~first.ok
        THEN Fetched(<<>>, Wrap("error getting cost data from AWS Cost Explorer", VendorError),
                     <<q0, q1>>, <<>>)
        ELSE IF Len(results) > 0 THEN Fetched(results, Nil, <<q0, q1>>, <<>>)
        ELSE IF Len(fallback) = 0
        THEN Fetched(<<>>, Errorf("no CloudWatch cost data found for the specified period"),
                     <<q0, q1, q2>>, note)
        ELSE Fetched(fallback, Nil, <<q0, q1, q2>>, note)

\* --- NewRelicProvider (internal/providers/newrelic/newrelic.go)

\* The accounts NerdGraph can list, and the NRQL results it can return for
\* one: a well-formed result, and one whose productLine is missing.
NrAccounts == {[ID |-> <<7, 7, 7>>, Name |-> "prod"], [ID |-> <<8, 8, 8>>, Name |-> "dev"]}
NrResults == {[productLine |-> <<"APM">>, value |-> <<3>>],
              [productLine |-> <<>>, value |-> <<3>>]}
Licenses == {[Type |-> "Basic", UsedLicenses |-> 2]}

\* The price of one license of a type (licenseCosts)
CostPerLicense(type) == IF type = "Basic" THEN 49 ELSE 0

\* The results the loops over NRQL results keep: those with a productLine and
\* a number.
WellFormed(results) ==
    SelectSeq(results, LAMBDA res : res.productLine # <<>> /\ res.value # <<>>)

\* The loop over accounts from the i-th on, shared by getDataMetrics and
\* getBasicCostData: one query per account, the first failing query ends the
\* operation with its error.  The data are the (account, result) pairs a
\* record is appended for.
RECURSIVE AccountsFrom(_, _, _, _, _)
AccountsFrom(i, accounts, answers, api, context) ==
    IF i > Len(accounts) THEN Fetched(<<>>, Nil, <<>>, <<>>)
    ELSE LET query == Query(api, accounts[i].Name, answers[i])
             rest == AccountsFrom(i + 1, accounts, answers, api, context)
             kept == Map(WellFormed(answers[i].items),
                         LAMBDA res : [account |-> accounts[i], result |-> res])
         IN  IF ~answers[i].ok
             THEN Fetched(<<>>, Wrap(context, VendorError), <<query>>, <<>>)
             ELSE IF rest.err # Nil
             THEN Fetched(<<>>, rest.err, <<query>> \o rest.vendor, <<>>)
             ELSE Fetched(kept \o rest.data, Nil, <<query>> \o rest.vendor, <<>>)

\* The accounts query and the loop over its accounts; Record(account, result)
\* is the record the loop appends.
PerAccount(accountsAnswer, answers, api, context, Record(_, _)) ==
    LET q == Query("NerdGraph accounts", api, accountsAnswer)
        loop == AccountsFrom(1, accountsAnswer.items, answers, api, context)
    IN  IF ~accountsAnswer.ok
        THEN Fetched(<<>>, Wrap("error querying account IDs", VendorError), <<q>>, <<>>)
        ELSE Fetched(Map(loop.data, LAMBDA kept : Record(kept.account, kept.result)),
                     loop.err, <<q>> \o loop.vendor, <<>>)

\* NewRelicProvider.getDataMetrics
getDataMetrics(accountsAnswer, answers) ==
    PerAccount(accountsAnswer, answers, "NRQL data usage",
               "error querying data metrics for account",
               LAMBDA account, res :
                   [Service |-> res.productLine[1], Metric |-> "DataSize",
                    Timestamp |-> Now])

\* NewRelicProvider.getLicenseUsageData; licenseAnswer is what GetLicenseInfo
\* returns.
getLicenseUsageData(licenseAnswer) ==
    LET q == Query("GetLicenseInfo", "usage", licenseAnswer)
    IN  IF ~licenseAnswer.ok
        THEN Fetched(<<>>, Wrap("failed to get license info", VendorError), <<q>>, <<>>)
        ELSE Fetched(Map(licenseAnswer.items,
                         LAMBDA license : [Service |-> "Licenses", Metric |-> license.Type,
                                           Timestamp |-> Now]),
                     Nil, <<q>>, <<>>)

\* GetUsageData and GetCostData: the primary source's error is returned; the
\* secondary source's error is printed and the primary records returned.
PrimaryAndSecondary(primary, secondary, warning) ==
    IF primary.err # Nil THEN primary
    ELSE IF secondary.err # Nil
    THEN Fetched(primary.data, Nil, primary.vendor \o secondary.vendor,
                 <<Log([warning |-> warning])>>)
    ELSE Fetched(primary.data \o secondary.data, Nil,
                 primary.vendor \o secondary.vendor, <<>>)

\* NewRelicProvider.GetUsageData
NewRelicGetUsageData(accountsAnswer, answers, licenseAnswer) ==
    PrimaryAndSecondary(getDataMetrics(accountsAnswer, answers),
                        getLicenseUsageData(licenseAnswer),
                        "Failed to get license usage data")

\* NewRelicProvider.getBasicCostData
getBasicCostData(accountsAnswer, answers, start) ==
    PerAccount(accountsAnswer, answers, "NRQL cost",
               "error querying cost data for account",
               LAMBDA account, res :
                   [Service |-> res.productLine[1], AccountID |-> account.ID,
                    StartTime |-> start, Cost |-> res.value[1], Currency |-> "USD"])

\* The account ID getLicenseCostData uses when the accounts query lists none.
UnknownAccount == <<0>>

\* NewRelicProvider.getLicenseCostData: the license costs go to the first
\* account listed.
getLicenseCostData(accountsAnswer, licenseAnswer, start) ==
    LET q1 == Query("NerdGraph accounts", "license costs", accountsAnswer)
        q2 == Query("GetLicenseInfo", "cost", licenseAnswer)
        accountID == IF Len(accountsAnswer.items) > 0 THEN accountsAnswer.items[1].ID
                     ELSE UnknownAccount
    IN  IF ~accountsAnswer.ok
        THEN Fetched(<<>>, Wrap("error querying account IDs for license costs", VendorError),
                     <<q1>>, <<>>)
        ELSE IF ~licenseAnswer.ok
        THEN Fetched(<<>>, Wrap("failed to get license info", VendorError), <<q1, q2>>, <<>>)
        ELSE Fetched(Map(licenseAnswer.items,
                         LAMBDA license :
                             [Service |-> "Licenses", AccountID |-> accountID,
                              StartTime |-> start,
                              Cost |-> license.UsedLicenses * CostPerLicense(license.Type),
                              Currency |-> "USD"]),
                     Nil, <<q1, q2>>, <<>>)

\* NewRelicProvider.GetCostData
NewRelicGetCostData(accountsAnswer, answers, licenseAccounts, licenseAnswer, start) ==
    PrimaryAndSecondary(getBasicCostData(accountsAnswer, answers, start),
                        getLicenseCostData(licenseAccounts, licenseAnswer, start),
                        "Failed to get license cost data")

\* --- A provider operation called on its own

\* The vendor's answers to the per-account queries of a listing of accounts.
AccountAnswers(accountsAnswer) ==
    [1..Len(accountsAnswer.items) -> Answers(NrResults)]

\* The operation returns: its queries, its result and its warnings are kept.
Returns(operation, res) ==
    /\ args' = [NoArgs EXCEPT !.entry = operation]
    /\ vendor' = res.vendor
    /\ fetched' = [data |-> res.data, err |-> res.err]
    /\ stdout' = stdout \o res.warnings

CloudWatchUsage ==
    /\ pc = "start"
    /\ \E answers \in [1..Len(Metrics) -> Answers(Datapoints)] :
          Returns("CloudWatchProvider.GetUsageData", CloudWatchGetUsageData(answers))
    /\ pc' = "fetched"
    /\ UNCHANGED <<report, err, calls, file, exit>>

CloudWatchCost ==
    /\ pc = "start"
    /\ \E loadOk \in BOOLEAN, first \in Answers(FilteredGroups),
          second \in Answers(CostGroups) :
          Returns("CloudWatchProvider.GetCostData",
                  CloudWatchGetCostData(loadOk, first, second))
    /\ pc' = "fetched"
    /\ UNCHANGED <<report, err, calls, file, exit>>

NewRelicUsage ==
    /\ pc = "start"
    /\ \E accountsAnswer \in Answers(NrAccounts), licenseAnswer \in Answers(Licenses) :
          \E answers \in AccountAnswers(accountsAnswer) :
              Returns("NewRelicProvider.GetUsageData",
                      NewRelicGetUsageData(accountsAnswer, answers, licenseAnswer))
    /\ pc' = "fetched"
    /\ UNCHANGED <<report, err, calls, file, exit>>

NewRelicCost ==
    /\ pc = "start"
    /\ \E accountsAnswer \in Answers(NrAccounts), licenseAccounts \in Answers(NrAccounts),
          licenseAnswer \in Answers(Licenses) :
          \E answers \in AccountAnswers(accountsAnswer) :
              Returns("NewRelicProvider.GetCostData",
                      NewRelicGetCostData(accountsAnswer, answers, licenseAccounts,
                                          licenseAnswer, 0))
    /\ pc' = "fetched"
    /\ UNCHANGED <<report, err, calls, file, exit>>

Init ==
    /\ args = NoArgs
    /\ pc = "start"
    /\ report = NoReport
    /\ err = Nil
    /\ calls = <<>>
    /\ stdout = <<>>
    /\ file \in {NoFile, OldFile}
    /\ exit = Running
    /\ vendor = <<>>
    /\ fetched = NoResult

Next ==
    \/ ExecuteReportGenerate
    \/ ExecuteReportOutput
    \/ CliGenerateReport
    \/ CliOutputReport
    \/ CloudWatchUsage
    \/ CloudWatchCost
    \/ NewRelicUsage
    \/ NewRelicCost

Spec == Init /\ [][Next]_vars

----------------------------------------------------------------------------
\* The renderers applied to any Report: a caller of package reports holds a
\* Report that GenerateReport built, with custom sections appended or not,
\* and hands it to one of Report.Output, Report.OutputTable, Report.OutputJSON.

SectionTitles == {"License Usage Details", "Inactive Users"}
SectionText(title) ==
    IF title = "License Usage Details" THEN "license usage report" ELSE "inactive users report"

RECURSIVE WithSections(_, _)
WithSections(r, titles) ==
    IF titles = {} THEN r
    ELSE LET title == CHOOSE t \in titles : TRUE
         IN  WithSections(AppendCustomSection(r, title, SectionText(title)),
                          titles \ {title})

\* The Reports GenerateReport returns, with every choice of sections appended.
Reports ==
    {WithSections(GenerateReport("newrelic", reportType, 0, 720, b[1], b[2]).report, titles) :
        reportType \in {"usage", "cost", "full"},
        b \in {x \in ProviderBehaviours : x[1].err = Nil /\ x[2].err = Nil},
        titles \in SUBSET SectionTitles}

RenderInit ==
    /\ args = [NoArgs EXCEPT !.entry = "reports"]
    /\ pc = "generated"
    /\ report \in Reports
    /\ err = Nil
    /\ calls = <<>>
    /\ stdout = <<>>
    /\ file \in {NoFile, OldFile}
    /\ exit = Running
    /\ vendor = <<>>
    /\ fetched = NoResult

\* r.Output(format, filePath)
ApplyOutput ==
    /\ pc = "generated"
    /\ \E format \in Formats, filePath \in FilePaths, createOk \in BOOLEAN,
          sorted \in SortSliceResults(report.UsageData) :
          LET o == Output(report, format, filePath, file, createOk, sorted)
          IN  /\ args' = [args EXCEPT !.entry = "Report.Output", !.format = format,
                                      !.filePath = filePath]
              /\ err' = o.err
              /\ report' = o.report
              /\ stdout' = stdout \o o.stdout
              /\ file' = o.file
    /\ pc' = "done"
    /\ UNCHANGED <<calls, exit, vendor, fetched>>

\* r.OutputTable(os.Stdout)
ApplyOutputTable ==
    /\ pc = "generated"
    /\ \E titles \in MapOrders(DOMAIN report.CustomSections) :
          LET res == OutputTable(report, titles)
          IN  /\ args' = [args EXCEPT !.entry = "Report.OutputTable", !.format = "table",
                                      !.filePath = ""]
              /\ err' = res.err
              /\ report' = res.report
              /\ stdout' = stdout \o res.rows
    /\ pc' = "done"
    /\ UNCHANGED <<calls, file, exit, vendor, fetched>>

\* r.OutputJSON(os.Stdout)
ApplyOutputJSON ==
    /\ pc = "generated"
    /\ \E encodeOk \in BOOLEAN,
          order \in MapOrders({report.CostData[i].AccountID : i \in 1..Len(report.CostData)}) :
          LET res == OutputJSON(report, order, encodeOk)
          IN  /\ args' = [args EXCEPT !.entry = "Report.OutputJSON", !.format = "json",
                                      !.filePath = ""]
              /\ err' = res.err
              /\ report' = res.report
              /\ stdout' = stdout \o res.rows
    /\ pc' = "done"
    /\ UNCHANGED <<calls, file, exit, vendor, fetched>>

\* The renderer that has written the Report to standard output, called once
\* more on the same Report with the same format.
RenderAgain ==
    /\ pc = "done"
    /\ err = Nil
    /\ args.filePath = ""
    /\ \E sorted \in SortSliceResults(report.UsageData),
          titles \in MapOrders(DOMAIN report.CustomSections),
          order \in MapOrders({report.CostData[i].AccountID : i \in 1..Len(report.CostData)}) :
          LET o == Output(report, args.format, "", file, TRUE, sorted)
              res == CASE args.entry = "Report.Output" -> Rendered(o.stdout, o.report, o.err)
                       [] args.entry = "Report.OutputTable" -> OutputTable(report, titles)
                       [] OTHER -> OutputJSON(report, order, TRUE)
          IN  /\ err' = res.err
              /\ report' = res.report
              /\ stdout' = stdout \o res.rows
    /\ pc' = "twice"
    /\ UNCHANGED <<args, calls, file, exit, vendor, fetched>>

RenderNext ==
    \/ ApplyOutput
    \/ ApplyOutputTable
    \/ ApplyOutputJSON
    \/ RenderAgain

RenderSpec == RenderInit /\ [][RenderNext]_vars

----------------------------------------------------------------------------
\* truncateString (report.go), applied to any description and column width.
\* A string is the sequence of its bytes.

\* A description has at most this many bytes.
MaxStringLen == 6

\* The widest column.
MaxWidth == 5

\* The bytes of a description: a letter and the full stop.
DescriptionBytes == {97, 46}
Descriptions == SeqsUpTo(DescriptionBytes, MaxStringLen)

\* "..."
Ellipsis == <<46, 46, 46>>

\* The run-time panic of a slice expression whose bound is negative.
Panic == [panic |-> "slice bounds out of range"]

truncateStringKeepsWidth(s, maxLength) ==
    IF Len(s) <= maxLength THEN s ELSE SubSeq(s, 1, maxLength) \o Ellipsis

\* "if len(s) <= maxLength { return s }; return s[:maxLength-3] + "...""
truncateString(s, maxLength) ==
    IF Len(s) <= maxLength THEN s
    ELSE IF maxLength - 3 < 0 THEN Panic
    ELSE SubSeq(s, 1, maxLength - 3) \o Ellipsis

TruncateInit ==
    /\ args \in {[entry |-> "truncateString", s |-> s, maxLength |-> maxLength] :
                    s \in Descriptions, maxLength \in 0..MaxWidth}
    /\ pc = "start"
    /\ report = NoReport
    /\ err = Nil
    /\ calls = <<>>
    /\ stdout = <<>>
    /\ file = NoFile
    /\ exit = Running
    /\ vendor = <<>>
    /\ fetched = NoResult

\* truncateString(desc, maxDescLength)
TruncateString ==
    /\ pc = "start"
    /\ fetched' = [result |-> truncateString(args.s, args.maxLength)]
    /\ pc' = "fetched"
    /\ UNCHANGED <<args, report, err, calls, stdout, file, exit, vendor>>

TruncateNext == TruncateString

TruncateSpec == TruncateInit /\ [][TruncateNext]_vars

----------------------------------------------------------------------------
\* Vocabulary of the properties

RECURSIVE SumOver(_, _)
SumOver(f, S) ==
    IF S = {} THEN 0
    ELSE LET i == CHOOSE x \in S : TRUE IN f[i] + SumOver(f, S \ {i})

\* The sum of the Cost fields of a sequence of cost records.
CostSum(costs) == SumOver([i \in 1..Len(costs) |-> costs[i].Cost], 1..Len(costs))

HasMsg(e, msg) == \E i \in 1..Len(e) : e[i] = msg
Called(op) == \E i \in 1..Len(calls) : calls[i].op = op

\* GenerateReport has returned a Report to the entry point.
Returned == pc = "generated"

\* The entry point has returned.
Finished == pc = "done"

\* What the run wrote to its sinks, the entry points' diagnostics and the
\* file's previous content left out.
OutputRows ==
    SelectSeq(stdout \o file.rows, LAMBDA row : row.kind \notin {"log", "error", "old"})
RowsOfKind(kind) == SelectSeq(OutputRows, LAMBDA row : row.kind = kind)

\* The failures an entry point reports before it looks at the report type.
EarlierFailures ==
    {"provider is required", "error parsing start date", "error parsing end date",
     "error initializing AWS CloudWatch provider", "error initializing NewRelic provider",
     "unsupported provider", "error getting provider", "error parsing dates"}

SupportedReportTypes == {"usage", "cost", "full"}
SupportedFormats == {"json", "csv", "table", "summary"}

----------------------------------------------------------------------------
\* C1: every Report GenerateReport returns for report type cost or full has
\* TotalCost equal to the sum of the Cost fields of its CostData, the empty
\* CostData included (sum 0).
C1_TotalCostIsSumOfCosts ==
    (report # NoReport /\ report.ReportType \in {"cost", "full"})
        => report.TotalCost = CostSum(report.CostData)

C1_Witness ==
    /\ Returned
    /\ report.ReportType = "cost"
    /\ Len(report.CostData) = 2
    /\ report.CostData[1].Cost # report.CostData[2].Cost
    /\ report.TotalCost = report.CostData[1].Cost + report.CostData[2].Cost

\* C2: a usage Report has no cost data and TotalCost 0 and GetCostData was not
\* called; a cost Report has no usage data and GetUsageData was not called; a
\* full Report holds exactly what GetUsageData and GetCostData returned.
C2_ReportTypeSelectsData ==
    /\ args.reportType = "usage" => ~Called("GetCostData")
    /\ args.reportType = "cost" => ~Called("GetUsageData")
    /\ (Returned /\ report.ReportType = "usage")
            => report.CostData = <<>> /\ report.TotalCost = 0
    /\ (Returned /\ report.ReportType = "cost") => report.UsageData = <<>>
    /\ (Returned /\ report.ReportType = "full")
            => /\ Len(calls) = 2
               /\ calls[1].op = "GetUsageData" /\ calls[2].op = "GetCostData"
               /\ report.UsageData = calls[1].result.data
               /\ report.CostData = calls[2].result.data

C2_Witness ==
    /\ Returned
    /\ report.ReportType = "full"
    /\ Len(report.UsageData) = 1
    /\ Len(report.CostData) = 1

\* C3: for a report type other than usage, cost and full, report generation
\* returns no Report and the entry point fails; unless an earlier check
\* (provider, dates) already failed, the error is the unsupported-report-type
\* error.
C3_UnsupportedReportTypeFails ==
    (args.reportType \notin SupportedReportTypes \cup {Unread})
        => /\ report = NoReport
           /\ Finished
           /\ \/ HasMsg(err, "unsupported report type")
              \/ \E msg \in EarlierFailures : HasMsg(err, msg)

\* C4: rendering with a format that is not supported fails with the
\* unsupported-output-format error on both entry points, unless the output
\* file could not be created.
C4_UnsupportedFormatFails ==
    (Finished /\ args.format \notin SupportedFormats \cup {Unread})
        => \/ HasMsg(err, "unsupported output format")
           \/ HasMsg(err, "failed to create output file")
           \/ HasMsg(err, "error creating output file")

\* C5: a step that ends in the unsupported-output-format error writes no
\* report row to standard output and leaves the output file as it was:
\* neither created nor truncated.
C5_UnsupportedFormatWritesNothing ==
    [][HasMsg(err', "unsupported output format")
        => /\ file' = file
           /\ SelectSeq(stdout', LAMBDA row : row.kind \notin {"log", "error"})
                = SelectSeq(stdout, LAMBDA row : row.kind \notin {"log", "error"})]_vars

\* How many elements of seq satisfy Test.
Count(seq, Test(_)) == Cardinality({i \in 1..Len(seq) : Test(seq[i])})

\* A table renderer has written the report.
TableRendered == Finished /\ RowsOfKind("header") # <<>>

\* The line items and DAILY TOTAL lines of the detailed breakdown, in order.
DetailRows ==
    SelectSeq(OutputRows, LAMBDA row : row.kind = "item" \/ row.kind = "daily")

\* C6: in every table rendering the (account, day) buckets partition the cost
\* records: the line items are the records of CostData, each as often as it
\* occurs there; each line item stands in the bucket, closed by the next DAILY
\* TOTAL line, of its own AccountID and its own StartTime day; and no
\* (account, day) bucket occurs twice.
C6_GroupingIsPartition ==
    TableRendered =>
        LET items == RowsOfKind("item")
            daily == RowsOfKind("daily")
            detail == DetailRows
        IN  /\ \A c \in CostRecords :
                    Count(items, LAMBDA row : row.item = c)
                        = Count(report.CostData, LAMBDA d : d = c)
            /\ Len(items) = Len(report.CostData)
            /\ \A i \in 1..Len(detail) :
                    detail[i].kind = "item" =>
                        \E j \in (i + 1)..Len(detail) :
                            /\ detail[j].kind = "daily"
                            /\ \A k \in (i + 1)..(j - 1) : detail[k].kind = "item"
                            /\ detail[j].acct = detail[i].item.AccountID
                            /\ detail[j].day = FormatDate(detail[i].item.StartTime)
            /\ \A i, j \in 1..Len(daily) :
                    i # j => <<daily[i].acct, daily[i].day>> # <<daily[j].acct, daily[j].day>>

C6_Witness ==
    /\ TableRendered
    /\ report.CostData = MonthlyBill
    /\ Len(RowsOfKind("item")) = 5
    /\ Len(RowsOfKind("daily")) = 4
    /\ RowsOfKind("daily")[1].acct = RowsOfKind("daily")[2].acct
    /\ RowsOfKind("daily")[1].day # RowsOfKind("daily")[2].day

\* The sum of the amounts of the rows of a kind printed for an account.
AmountOf(kind, acct) ==
    LET rows == SelectSeq(RowsOfKind(kind), LAMBDA row : row.acct = acct)
    IN  SumOver([i \in 1..Len(rows) |-> rows[i].amount], 1..Len(rows))

\* C7: in every cost rendering each account has one summary line and one
\* ACCOUNT TOTAL line, both equal to the sum of the account's DAILY TOTAL
\* lines; the one TOTAL line equals the sum of the account totals and
\* Report.TotalCost.
C7_TotalsAddUp ==
    TableRendered =>
        LET summary == RowsOfKind("summary")
            total == RowsOfKind("total")
            accts == {report.CostData[i].AccountID : i \in 1..Len(report.CostData)}
        IN  /\ Len(total) = IF report.CostData = <<>> THEN 0 ELSE 1
            /\ {summary[i].acct : i \in 1..Len(summary)} = accts
            /\ \A a \in accts :
                    /\ Count(summary, LAMBDA row : row.acct = a) = 1
                    /\ Count(RowsOfKind("account"), LAMBDA row : row.acct = a) = 1
                    /\ AmountOf("daily", a) = AmountOf("account", a)
                    /\ AmountOf("account", a) = AmountOf("summary", a)
            /\ \A i \in 1..Len(total) :
                    /\ total[i].amount
                            = SumOver([k \in 1..Len(summary) |-> summary[k].amount],
                                      1..Len(summary))
                    /\ total[i].amount = report.TotalCost

C7_Witness ==
    /\ TableRendered
    /\ report.CostData = MonthlyBill
    /\ Len(RowsOfKind("summary")) = 2
    /\ AmountOf("daily", <<1, 1, 1>>) = 35
    /\ AmountOf("account", <<1, 1, 1>>) = 35
    /\ AmountOf("summary", <<2, 2, 2>>) = 9
    /\ RowsOfKind("total")[1].amount = 44
    /\ report.TotalCost = 44

\* C8: the usage lines of every table rendering are in ascending timestamp
\* order.
C8_UsageRowsAscending ==
    LET usage == RowsOfKind("usage")
    IN  \A i, j \in 1..Len(usage) :
            i < j => usage[i].item.Timestamp <= usage[j].item.Timestamp

\* Parsing the document: the length of an array field, 0 when it is absent.
ArrayLen(doc, field) == IF field \in DOMAIN doc THEN Len(doc[field]) ELSE 0

\* C9: in every document OutputJSON emits, summary.usageDataEntries is the
\* length of usageData and summary.costDataEntries the length of costData, an
\* absent array counting as empty.
C9_JSONEntryCounts ==
    LET docs == RowsOfKind("json")
    IN  \A i \in 1..Len(docs) :
            /\ docs[i].item.summary.usageDataEntries = ArrayLen(docs[i].item, "usageData")
            /\ docs[i].item.summary.costDataEntries = ArrayLen(docs[i].item, "costData")

C9_Witness ==
    /\ Finished
    /\ Len(RowsOfKind("json")) = 1
    /\ "usageData" \notin DOMAIN RowsOfKind("json")[1].item
    /\ RowsOfKind("json")[1].item.summary.usageDataEntries = 0
    /\ RowsOfKind("json")[1].item.summary.costDataEntries = 2

\* C10: Report.Output with format "json" writes one JSON document carrying
\* the report's fields to the sink, and no placeholder text.
C10_OutputJSONWritesDocument ==
    (Finished /\ args.entry = "cmd" /\ args.format = "json" /\ err = Nil)
        => /\ RowsOfKind("text") = <<>>
           /\ Len(RowsOfKind("json")) = 1
           /\ \A i \in 1..Len(RowsOfKind("json")) :
                  /\ RowsOfKind("json")[i].item.provider = report.ProviderName
                  /\ RowsOfKind("json")[i].item.reportType = report.ReportType

\* The report holds no usage and no cost records.
EmptyReport == report # NoReport /\ report.UsageData = <<>> /\ report.CostData = <<>>

\* The failures of the sink, which do not depend on the report.
SinkFailures ==
    {"failed to create output file", "error creating output file",
     "error encoding report to JSON"}

\* C11: a Report with no usage and no cost records renders without error in
\* every supported format: unless the sink fails, the run ends without error,
\* the output holds the header (provider, period, report type) with entry
\* counts of zero, as table lines or as a JSON document, and no usage or cost
\* rows.
C11_EmptyReportRenders ==
    (Finished /\ EmptyReport /\ args.format \in SupportedFormats
        /\ \A msg \in SinkFailures : ~HasMsg(err, msg))
        => /\ err = Nil
           /\ \A kind \in {"usage", "item", "daily", "account", "summary", "total"} :
                  RowsOfKind(kind) = <<>>
           /\ \/ \E i \in 1..Len(OutputRows), j \in 1..Len(OutputRows) :
                     /\ OutputRows[i].kind = "header"
                     /\ OutputRows[i].item.provider = report.ProviderName
                     /\ OutputRows[i].item.reportType = report.ReportType
                     /\ OutputRows[i].item.startDate = FormatDate(report.StartDate)
                     /\ OutputRows[i].item.endDate = FormatDate(report.EndDate)
                     /\ OutputRows[j].kind = "counts"
                     /\ OutputRows[j].item = [usage |-> 0, cost |-> 0]
              \/ \E i \in 1..Len(OutputRows) :
                     /\ OutputRows[i].kind = "json"
                     /\ OutputRows[i].item.provider = report.ProviderName
                     /\ OutputRows[i].item.reportType = report.ReportType
                     /\ OutputRows[i].item.startDate = FormatDate(report.StartDate)
                     /\ OutputRows[i].item.endDate = FormatDate(report.EndDate)
                     /\ OutputRows[i].item.summary.usageDataEntries = 0
                     /\ OutputRows[i].item.summary.costDataEntries = 0

\* The context GenerateReport puts in front of a provider operation's error.
ContextOf(op) ==
    IF op = "GetUsageData" THEN "error getting usage data" ELSE "error getting cost data"

\* The error chain e ends with the chain cause.
EndsWith(e, cause) ==
    Len(e) >= Len(cause) /\ SubSeq(e, Len(e) - Len(cause) + 1, Len(e)) = cause

\* C13: if a provider operation called by GenerateReport returns an error,
\* GenerateReport makes no further provider call, returns no Report, and
\* returns an error that wraps the provider's error as its cause.
C13_ProviderErrorPropagates ==
    \A i \in 1..Len(calls) :
        calls[i].result.err # Nil
            => /\ i = Len(calls)
               /\ report = NoReport
               /\ Finished
               /\ EndsWith(err, <<ContextOf(calls[i].op)>> \o calls[i].result.err)

C13_Witness ==
    /\ Finished
    /\ args.reportType = "full"
    /\ Len(calls) = 1
    /\ calls[1].op = "GetUsageData"
    /\ calls[1].result.err = ProviderError
    /\ report = NoReport
    /\ EndsWith(err, <<"error getting usage data">> \o ProviderError)

\* C16: whenever the report command ends in an error, the error has been
\* printed and the process has exited with a non-zero status.
C16_ErrorExitsNonZero ==
    (Finished /\ args.entry = "cmd" /\ err # Nil)
        => /\ \E i \in 1..Len(stdout) : stdout[i].kind = "error" /\ stdout[i].item = err
           /\ exit # Running
           /\ exit # 0

\* The output step of the entry point has begun.
RenderingBegan == args.format # Unread

\* The provider calls made so far are in the order usage, cost; and once the
\* output step has begun a Report is held, every fetch its type needs has
\* been made and has succeeded, and the total is aggregated.
FetchedThenAggregated ==
    /\ \A i, j \in 1..Len(calls) :
           i < j => calls[i].op = "GetUsageData" /\ calls[j].op = "GetCostData"
    /\ RenderingBegan =>
           /\ report # NoReport
           /\ \A i \in 1..Len(calls) : calls[i].result.err = Nil
           /\ report.ReportType \in {"usage", "full"} => Called("GetUsageData")
           /\ report.ReportType \in {"cost", "full"} =>
                  Called("GetCostData") /\ report.TotalCost = CostSum(report.CostData)

\* C19: within one invocation the steps occur in the order fetch usage, fetch
\* cost, aggregate, render: every step leaves the calls in that order, the
\* output step begins only after the needed fetches have succeeded and the
\* total is aggregated, and no step taken once a Report is held calls the
\* provider.
C19_FetchAggregateRender ==
    [][FetchedThenAggregated' /\ (pc = "generated" => calls' = calls)]_vars

C19_Witness ==
    /\ Finished
    /\ RenderingBegan
    /\ report # NoReport
    /\ report.ReportType = "full"
    /\ Len(calls) = 2
    /\ RowsOfKind("usage") # <<>>
    /\ RowsOfKind("item") # <<>>

\* A provider operation run on its own has returned.
OperationReturned == pc = "fetched"

UsageOperations == {"CloudWatchProvider.GetUsageData", "NewRelicProvider.GetUsageData"}
CostOperations == {"CloudWatchProvider.GetCostData", "NewRelicProvider.GetCostData"}

\* A query of the secondary source of a New Relic operation (the licenses);
\* every other query belongs to the primary source.
Secondary(query) ==
    \/ query.api = "GetLicenseInfo"
    \/ query.api = "NerdGraph accounts" /\ query.about = "license costs"

\* A query that lists accounts returns no data of the period.
ListsAccounts(query) == query.api = "NerdGraph accounts"

\* C12: when every vendor call of a provider operation succeeds and none
\* yields data, the operation returns an empty sequence and no error; and
\* when the provider operations GenerateReport calls do so, GenerateReport
\* returns an empty Report and no error.
C12_NoDataIsEmptyResult ==
    /\ (OperationReturned
          /\ \A i \in 1..Len(vendor) :
                /\ vendor[i].answer.ok
                /\ ListsAccounts(vendor[i]) \/ vendor[i].answer.items = <<>>)
          => fetched.data = <<>> /\ fetched.err = Nil
    /\ (Returned /\ \A i \in 1..Len(calls) : calls[i].result = [data |-> <<>>, err |-> Nil])
          => err = Nil /\ EmptyReport

\* C14: GetUsageData returns an error, and no records, whenever a query it
\* makes of its primary source fails.
C14_UsageQueryFailureFails ==
    (OperationReturned /\ args.entry \in UsageOperations
        /\ (\E i \in 1..Len(vendor) : (~Secondary(vendor[i]) /\ ~vendor[i].answer.ok)))
        => fetched.err # Nil /\ fetched.data = <<>>

\* The results of the primary source's queries a record is made of.
RECURSIVE PrimaryResults(_)
PrimaryResults(queries) ==
    IF queries = <<>> THEN <<>>
    ELSE (IF Secondary(Head(queries)) \/ ListsAccounts(Head(queries)) THEN <<>>
          ELSE WellFormed(Head(queries).answer.items))
             \o PrimaryResults(Tail(queries))

\* C15: when the secondary source of a New Relic operation fails and the
\* primary source succeeds, the operation returns the primary records, one
\* per well-formed primary result and no license record, and no error; and
\* cli.GenerateReport never fails for the license usage report.
C15_SecondaryFailureTolerated ==
    /\ (OperationReturned
          /\ args.entry \in {"NewRelicProvider.GetUsageData", "NewRelicProvider.GetCostData"}
          /\ (\A i \in 1..Len(vendor) : (Secondary(vendor[i]) \/ vendor[i].answer.ok))
          /\ (\E i \in 1..Len(vendor) : (Secondary(vendor[i]) /\ ~vendor[i].answer.ok)))
          => /\ fetched.err = Nil
             /\ Len(fetched.data) = Len(PrimaryResults(vendor))
             /\ \A k \in 1..Len(fetched.data) : fetched.data[k].Service # "Licenses"
    /\ ~(args.entry = "cli" /\ HasMsg(err, "error generating license details"))

\* C18: every CostData a provider's GetCostData returns carries the account it
\* was billed to: the AccountID is not empty and, for the AWS adapter, it is
\* the linked-account key of a Cost Explorer group of the record's service
\* and day.
C18_CostRecordsHaveAccount ==
    (OperationReturned /\ args.entry \in CostOperations)
        => \A k \in 1..Len(fetched.data) :
              /\ fetched.data[k].AccountID # <<>>
              /\ args.entry = "CloudWatchProvider.GetCostData"
                    => \E i \in 1..Len(vendor) :
                          \E g \in 1..Len(vendor[i].answer.items) :
                              LET group == vendor[i].answer.items[g]
                              IN  /\ Len(group.Keys) >= 2
                                  /\ group.Keys[1] = fetched.data[k].Service
                                  /\ group.Keys[2] = fetched.data[k].AccountID
                                  /\ DayParse(group.Start) = fetched.data[k].StartTime

\* C20: no query is re-issued: one GenerateReport calls GetUsageData at most
\* once and GetCostData at most once, and one GetCostData issues at most one
\* cost query to the vendor.
C20_NoQueryReissued ==
    /\ Count(calls, LAMBDA c : c.op = "GetUsageData") <= 1
    /\ Count(calls, LAMBDA c : c.op = "GetCostData") <= 1
    /\ args.entry = "CloudWatchProvider.GetCostData"
          => Count(vendor, LAMBDA q : q.api = "GetCostAndUsage") <= 1

\* The kinds of the rows of the main report body.
BodyKinds == {"header", "counts", "usage", "summary", "total", "item", "daily", "account"}

\* C17: when a rendered Report carries custom sections, a table rendering
\* holds every section, its content verbatim under its title, after every row
\* of the report body, and a JSON document holds them as customSections.
C17_CustomSectionsEmitted ==
    (Finished /\ err = Nil /\ report # NoReport /\ DOMAIN report.CustomSections # {})
        => /\ TableRendered =>
                \A title \in DOMAIN report.CustomSections :
                    \E i \in 1..Len(OutputRows) :
                        /\ OutputRows[i].kind = "section"
                        /\ OutputRows[i].item
                              = [title |-> title, content |-> report.CustomSections[title]]
                        /\ \A j \in 1..Len(OutputRows) :
                              OutputRows[j].kind \in BodyKinds => j < i
           /\ \A i \in 1..Len(OutputRows) :
                OutputRows[i].kind = "json"
                    => /\ "customSections" \in DOMAIN OutputRows[i].item
                       /\ OutputRows[i].item.customSections = report.CustomSections

\* The errors that reject invalid user input.
InvalidInputErrors == {"unsupported report type", "unsupported output format"}

\* C21: a run that ends with the unsupported-report-type or the
\* unsupported-output-format error has called no provider operation and has
\* written no report output.
C21_InvalidInputRejectedFirst ==
    (Finished /\ \E msg \in InvalidInputErrors : HasMsg(err, msg))
        => /\ calls = <<>>
           /\ OutputRows = <<>>

\* C22: a rendering step leaves the Report as GenerateReport (and the
\* custom-section append) produced it: UsageData and CostData with their
\* order, TotalCost and the header fields.
C22_RenderingLeavesReport ==
    [][pc = "generated" => report' = report]_vars

\* The rows of a kind are in strictly ascending order of their account ID.
AccountsAscending(kind) ==
    \A i, j \in 1..Len(RowsOfKind(kind)) :
        i < j => LexLess(RowsOfKind(kind)[i].acct, RowsOfKind(kind)[j].acct)

\* C23: in every cost rendering of the table renderers the accounts of the
\* account cost summary and of the detailed breakdown appear in ascending
\* lexicographic order of AccountID, whatever the order of the records.
C23_AccountsAscending ==
    TableRendered => AccountsAscending("summary") /\ AccountsAscending("account")

\* The first and the second half of what was written to standard output.
FirstRendering == SubSeq(stdout, 1, Len(stdout) \div 2)
SecondRendering == SubSeq(stdout, (Len(stdout) \div 2) + 1, Len(stdout))

\* C24: a Report rendered twice in the same format gives the same output
\* twice: the same rows in the same order, the accounts of the JSON summary,
\* the summary currency and the custom sections included.
C24_RenderingDeterministic ==
    (pc = "twice" /\ err = Nil)
        => /\ Len(stdout) % 2 = 0
           /\ FirstRendering = SecondRendering

\* C25: in every table rendering the day of a bucket is the StartTime of its
\* line items formatted as a date, and the DAILY TOTAL lines of one account
\* stand in strictly ascending order of their day, so that no day occurs
\* twice within an account, whatever the order of the records.
C25_DayBucketsAscending ==
    TableRendered =>
        LET daily == RowsOfKind("daily")
            items == RowsOfKind("item")
        IN  /\ \A i \in 1..Len(items) :
                    items[i].day = FormatDate(items[i].item.StartTime)
            /\ \A i \in 1..Len(daily) :
                    \E k \in 1..Len(items) :
                        /\ items[k].acct = daily[i].acct
                        /\ FormatDate(items[k].item.StartTime) = daily[i].day
            /\ \A i, j \in 1..Len(daily) :
                    (i < j /\ daily[i].acct = daily[j].acct)
                        => LexLess(daily[i].day, daily[j].day)

C25_Witness ==
    /\ TableRendered
    /\ Len(report.CostData) = 2
    /\ report.CostData[1].AccountID = report.CostData[2].AccountID
    /\ report.CostData[1].StartTime = 32
    /\ report.CostData[2].StartTime = 8
    /\ Len(RowsOfKind("daily")) = 2
    /\ RowsOfKind("daily")[1].day = FormatDate(8)
    /\ RowsOfKind("daily")[2].day = FormatDate(32)

\* The rows of the detailed breakdown, in the order written.
Breakdown ==
    SelectSeq(OutputRows, LAMBDA row : row.kind \in {"item", "daily", "account"})

\* C26: in the detailed breakdown every line item is followed, after only
\* line items of the same account and day, by the DAILY TOTAL line of that
\* day, which occurs once; every account has one ACCOUNT TOTAL line, which
\* follows all line items and DAILY TOTAL lines of the account, and the rows
\* of another account stand all before the account's first row or all after
\* its ACCOUNT TOTAL line.
C26_BreakdownRowOrder ==
    TableRendered =>
        LET b == Breakdown
            n == Len(Breakdown)
            accts == {report.CostData[i].AccountID : i \in 1..Len(report.CostData)}
        IN  /\ \A i \in 1..n :
                    b[i].kind = "item" =>
                        \E j \in (i + 1)..n :
                            /\ b[j].kind = "daily"
                            /\ b[j].acct = b[i].acct
                            /\ b[j].day = b[i].day
                            /\ \A k \in (i + 1)..(j - 1) :
                                    (b[k].kind = "item" /\ b[k].acct = b[i].acct
                                        /\ b[k].day = b[i].day)
            /\ \A i, j \in 1..n :
                    (i < j /\ b[i].kind = "daily" /\ b[j].kind = "daily")
                        => <<b[i].acct, b[i].day>> # <<b[j].acct, b[j].day>>
            /\ \A a \in accts :
                    \E p \in 1..n :
                        /\ b[p].kind = "account" /\ b[p].acct = a
                        /\ \A k \in 1..n :
                                (k # p /\ b[k].acct = a) => (k < p /\ b[k].kind # "account")
                        /\ \E first \in 1..p :
                                /\ \A k \in first..p : b[k].acct = a
                                /\ \A k \in 1..n : b[k].acct = a => k >= first
            /\ (n > 0 => (report.CostData # <<>> /\ b[n].kind = "account"))

C26_Witness ==
    /\ TableRendered
    /\ report.CostData = MonthlyBill
    /\ Len(Breakdown) = 11
    /\ Breakdown[1].kind = "item"
    /\ Breakdown[3].kind = "daily"
    /\ Breakdown[6].kind = "account"
    /\ Breakdown[7].acct # Breakdown[6].acct
    /\ Breakdown[11].kind = "account"

\* The currency of the last record of an account, in the order of CostData.
LastRecordCurrency(acct) ==
    LET group == AccountGroup(report.CostData, acct)
    IN  group[Len(group)].Currency

\* C27: the currency shown with the grand total is the currency of the last
\* record of the last account in rendering order, in the table renderers
\* (the TOTAL line after the account lines) and in the JSON summary
\* (summary.currency after summary.accounts) alike; an account's own line or
\* entry shows the currency of the account's last record.
C27_LastSeenCurrency ==
    /\ TableRendered =>
            LET summary == RowsOfKind("summary")
                total == RowsOfKind("total")
            IN  \A i \in 1..Len(total) :
                    total[i].cur = LastRecordCurrency(summary[Len(summary)].acct)
    /\ Finished =>
            \A i \in 1..Len(RowsOfKind("json")) :
                LET doc == RowsOfKind("json")[i].item.summary
                IN  "accounts" \in DOMAIN doc =>
                        /\ \A k \in 1..Len(doc.accounts) :
                                doc.accounts[k].currency
                                    = LastRecordCurrency(doc.accounts[k].accountId)
                        /\ doc.currency = doc.accounts[Len(doc.accounts)].currency

\* C29: cli.GenerateReport returns nil only after the rendering reached its
\* sink, standard output or the output file: the JSON document for format
\* json, the table otherwise.  A rendering that failed never ends in nil.
C29_RenderErrorReturned ==
    (Finished /\ args.entry = "cli" /\ args.format # Unread /\ err = Nil)
        => IF args.format = "json"
           THEN Len(RowsOfKind("json")) = 1
           ELSE TableRendered

\* C30: in every document OutputJSON writes for a Report with cost data,
\* summary.accounts has one entry per distinct AccountID, the cost of an entry
\* is the sum of Cost over the records of its account, and summary.totalCost
\* is the sum of the entries' costs and is Report.TotalCost.
C30_JSONSummaryAccounts ==
    Finished =>
        \A i \in 1..Len(RowsOfKind("json")) :
            LET doc == RowsOfKind("json")[i].item
                accts == {report.CostData[k].AccountID : k \in 1..Len(report.CostData)}
            IN  report.CostData # <<>> =>
                    /\ "accounts" \in DOMAIN doc.summary
                    /\ Len(doc.summary.accounts) = Cardinality(accts)
                    /\ {doc.summary.accounts[k].accountId :
                            k \in 1..Len(doc.summary.accounts)} = accts
                    /\ \A k \in 1..Len(doc.summary.accounts) :
                            doc.summary.accounts[k].cost
                                = CostSum(AccountGroup(report.CostData,
                                                       doc.summary.accounts[k].accountId))
                    /\ doc.summary.totalCost
                            = SumOver([k \in 1..Len(doc.summary.accounts) |->
                                            doc.summary.accounts[k].cost],
                                      1..Len(doc.summary.accounts))
                    /\ doc.summary.totalCost = report.TotalCost

C30_Witness ==
    /\ Finished
    /\ Len(RowsOfKind("json")) = 1
    /\ report.CostData = MonthlyBill
    /\ Len(RowsOfKind("json")[1].item.summary.accounts) = 2
    /\ RowsOfKind("json")[1].item.summary.accounts[1].accountId = <<2, 2, 2>>
    /\ RowsOfKind("json")[1].item.summary.accounts[1].cost = 9
    /\ RowsOfKind("json")[1].item.summary.accounts[2].cost = 35
    /\ RowsOfKind("json")[1].item.summary.totalCost = 44
    /\ report.TotalCost = 44

====
